---- MODULE Spec2Model ----
(***************************************************************************)
(* Model of the shraga monitoring service: the store operations of GormDb  *)
(* (GetMonitorsToRun, Lock, Unlock, SaveResult), the Manager (Run, the     *)
(* watcher goroutine that closes doWorkCh, startWorkerPool, work) and the  *)
(* HTTP probe HttpMonitor.Monitor / checkSSL, with the gorm hooks          *)
(* HttpMonitor.BeforeSave / AfterFind for the request timeout.             *)
(*                                                                         *)
(* Time is counted in ticker periods (time.NewTicker(1 * time.Second)) and *)
(* measured from the present: now() is the origin, a stored time is the    *)
(* (negative) distance to it, and AdvanceTime moves every stored time one  *)
(* period back and makes the ticker fire. A stored time older than every   *)
(* interval is kept at Oldest: all such times compare alike.               *)
(* Go's channel semantics are modelled at the level of select: a goroutine *)
(* first evaluates its select (taking a ready case, chosen at random among *)
(* the ready ones) and parks when no case is ready; closing ctx.Done()     *)
(* wakes every goroutine parked in a select that lists it.                 *)
(***************************************************************************)
EXTENDS Integers, Sequences, FiniteSets, TLC

\* ---- size of the model ----------------------------------------------------
\* number of executors started by startWorkerPool; the source sets 10, the
\* model runs a pool of this size
maxWorkers == 2

Workers == 1..maxWorkers
\* the monitor rows of the store
MonitorIds == {1, 2}
\* the configured intervals, in ticker periods
Intervals == {1}
\* the oldest stored time that is told apart, relative to now(): one period
\* more than the longest interval
Oldest == 0 - 2
Times == Oldest..0
NoMonitor == 0

\* var now = time.Now: the present is the origin of the time axis
now == 0

\* ---- Result (monitor.go) --------------------------------------------------
ResultUnknown == "Unknown"
ResultUp == "Up"
ResultDown == "Down"
ResultWarn == "Warn"

\* ---- errors ---------------------------------------------------------------
Nil == "nil"
ErrCanceled == "context canceled"
ErrDb == "db error"
ErrNotFound == "monitor not found"

VARIABLES
    store,        \* http_monitors: id -> row
    cancelled,    \* ctx.Done() is closed
    tickPending,  \* ticker.C holds a tick (buffer of one)
    chClosed,     \* doWorkCh is closed
    closeCount,   \* number of close(doWorkCh) executed
    watcherPc,    \* the goroutine of Run that closes doWorkCh
    runPc,        \* position of Manager.Run
    runResult,    \* value returned by Run
    batch,        \* availableMonitors still to dispatch
    pc,           \* position of each executor goroutine
    wmon,         \* monitor id the executor is working on
    wLocked,      \* Lock of the current work unit succeeded
    wErr,         \* error work is going to return
    unlockCalls,  \* Unlock invocations of the current work unit
    saveCalls,    \* SaveResult invocations of the current work unit
    inProgress,   \* calls of work in progress per executor
    probing,      \* calls of mon.Monitor in flight
    wg,           \* counter of the sync.WaitGroup
    hm,           \* HttpMonitor under probe (probe specification)
    env,          \* endpoint behaviour seen by the probe
    monitorResult, \* HttpResponse returned by Monitor
    configured,   \* the ReqTimeout the caller set before the save
    ReqTimeout,   \* HttpMonitor.ReqTimeout, in milliseconds
    ReqTimeoutInt, \* HttpMonitor.ReqTimeoutInt (column req_timeout)
    hookPc,       \* which hooks have run on that HttpMonitor
    dbCall        \* the last direct call of a GormDb operation

schedVars == <<store, cancelled, tickPending, chClosed,
               closeCount, watcherPc, runPc, runResult, batch>>
workerVars == <<pc, wmon, wLocked, wErr, unlockCalls, saveCalls,
                inProgress, probing, wg>>
probeVars == <<hm, env, monitorResult>>
hookVars == <<configured, ReqTimeout, ReqTimeoutInt, hookPc>>
vars == <<schedVars, workerVars, probeVars, hookVars, dbCall>>

\* ---- HttpMonitor.Monitor (http_monitor.go) --------------------------------
\* days of the window of the expiry warning: 30*24*time.Hour
ThirtyDays == 30
\* time.Duration holds at most 2^63 - 1 ns, which is 106751 days
MaxDuration == 106751
\* the zero time.Time of SSLDetails{} (1 January of year 1), in days from now
ZeroTime == 0 - 739000

\* days between the probe and the NotAfter of the certificate served
CertLifetimes == {10, 30, 31}
StatusCodes == {200, 500}
Bodies == {"ok", "fail", "okay"}
Latencies == {0, 7}
\* err.Error() of a failed client.Do
TransportErrors == {"connection refused", "context deadline exceeded"}

HttpMonitors ==
    [ID : MonitorIds,
     ShouldWarnOnSSLExpiry : BOOLEAN,
     ShouldCheckSSL : BOOLEAN,
     ShouldCheckResponse : BOOLEAN,
     ExpectedResponse : {"ok"},
     ValidStatusCodes : {{}, {200}}]

\* what the network does during one probe
Envs ==
    [reqErr : BOOLEAN,         \* http.NewRequestWithContext fails
     dialOk : BOOLEAN,         \* tls.Dial succeeds
     lifetime : CertLifetimes, \* days from now to NotAfter of the leaf
     transportErr : {Nil} \cup TransportErrors, \* err of client.Do
     statusCode : StatusCodes,
     body : Bodies,
     readErr : BOOLEAN,        \* io.ReadAll fails
     latency : Latencies]

NoHm == [ID |-> NoMonitor]
NoEnv == [reqErr |-> FALSE]
NoResponse == [MonitorID |-> NoMonitor, Result |-> ResultUnknown]

\* time.Time.Sub: the difference, saturated at the range of time.Duration
Sub(t, u) ==
    IF t - u > MaxDuration THEN MaxDuration
    ELSE IF t - u < 0 - MaxDuration THEN 0 - MaxDuration
    ELSE t - u

checkSSL(m, e) ==
    IF ~e.dialOk
    THEN [Valid |-> FALSE, Expiry |-> ZeroTime]
    ELSE [Valid |-> TRUE, Expiry |-> now + e.lifetime]

\* the final decision of Monitor, once transport, status and body passed
WarnOrUp(m, ssl, e) ==
    IF m.ShouldWarnOnSSLExpiry /\ Sub(ssl.Expiry, now) < ThirtyDays
    THEN ResultWarn
    ELSE ResultUp

\* a membership test that takes an empty list of codes for "any code"
ContainsOrEmpty(codes, code) == codes = {} \/ code \in codes

\* lo.Contains(hm.ValidStatusCodes, resp.StatusCode)
Contains(codes, code) == code \in codes

\* a comparison that accepts every body that begins with the expected one
EqualOrLonger(gotResp, expected) == gotResp \in {expected, expected \o "ay"}

\* gotResp != hm.ExpectedResponse is false: the strings are equal
EqualBody(gotResp, expected) == gotResp = expected

\* a failed request that still has its latency taken
TransportFailureTimed(r, e) ==
    [r EXCEPT !.ErrorMsg = e.transportErr, !.Latency = e.latency]

\* client.Do failed: monitorResult.ErrorMsg = err.Error(); return
TransportFailure(r, e) == [r EXCEPT !.ErrorMsg = e.transportErr]

\* a result that starts without an outcome
InitialResultUnset == ResultUnknown

\* Result: ResultDown in the literal that creates monitorResult
InitialResult == ResultDown

\* a probe that gives up when the SSL sub-check failed
AbortOnInvalidSsl(ssl) == ~ssl.Valid

\* after monitorResult.SslResp = hm.checkSSL() the probe goes on whatever
\* checkSSL returned: no statement looks at it before the final decision
AbortOnSsl(ssl) == FALSE

Monitor(m, e) ==
    LET r0 == [MonitorID |-> m.ID,
               Result |-> InitialResult,
               ErrorMsg |-> "",
               SslResp |-> [Valid |-> FALSE, Expiry |-> ZeroTime],
               Latency |-> 0,
               DataValid |-> FALSE,
               StatusCodeValid |-> FALSE]
        r1 == IF m.ShouldCheckSSL \/ m.ShouldWarnOnSSLExpiry
              THEN [r0 EXCEPT !.SslResp = checkSSL(m, e)]
              ELSE r0
        r2 == [r1 EXCEPT !.Latency = e.latency,
                         !.StatusCodeValid = Contains(m.ValidStatusCodes, e.statusCode)]
    IN  IF e.reqErr THEN [r0 EXCEPT !.ErrorMsg = "request error"]
        ELSE IF AbortOnSsl(r1.SslResp) /\ (m.ShouldCheckSSL \/ m.ShouldWarnOnSSLExpiry)
             THEN r1
        ELSE IF e.transportErr # Nil THEN TransportFailure(r1, e)
        ELSE IF ~r2.StatusCodeValid THEN [r2 EXCEPT !.Result = ResultDown]
        ELSE IF m.ShouldCheckResponse /\ e.readErr
             THEN [r2 EXCEPT !.ErrorMsg = "read error"]
        ELSE IF m.ShouldCheckResponse /\ ~EqualBody(e.body, m.ExpectedResponse)
             THEN [r2 EXCEPT !.ErrorMsg = "response is not as expected: " \o e.body]
        ELSE [r2 EXCEPT !.Result = WarnOrUp(m, r2.SslResp, e)]

\* the Results a probe can end with
ProbeOutcomes == {Monitor(m, e).Result : m \in HttpMonitors, e \in Envs}

\* ---- HttpMonitor.BeforeSave / AfterFind: the request timeout ---------------
\* the timeouts of the HTTP client, in milliseconds
defaultHttpClientTimeout == 30000
maxHttpClientTimeout == 300000
minHttpClientTimeout == 1000

\* the values a caller or a row can hold: negative, zero, below the minimum,
\* the limits and their neighbours, in range, above the maximum
TimeoutValues ==
    {0 - 5000, 0 - 1, 0, 1, 999, 1000, 1001, 30000, 299999, 300000, 300001,
     600000}

\* BeforeSave without the lower limit
ClampBeforeSaveNoMin(t) ==
    IF t = 0 THEN defaultHttpClientTimeout
    ELSE IF t > maxHttpClientTimeout THEN maxHttpClientTimeout
    ELSE t

\* BeforeSave: the ReqTimeout that is stored
ClampBeforeSave(t) ==
    IF t = 0 THEN defaultHttpClientTimeout
    ELSE IF t > maxHttpClientTimeout THEN maxHttpClientTimeout
    ELSE IF t < minHttpClientTimeout THEN minHttpClientTimeout
    ELSE t

\* AfterFind: the ReqTimeout made of the stored ReqTimeoutInt
ClampAfterFind(t) ==
    IF t > maxHttpClientTimeout THEN maxHttpClientTimeout
    ELSE IF t < minHttpClientTimeout THEN minHttpClientTimeout
    ELSE t

\* ---- GormDb (monitor.go, package db) -------------------------------------
\* BaseMonitor.AfterFind: Interval = time.Duration(IntervalInt)
AfterFind(row) ==
    [f \in DOMAIN row \cup {"Interval"} |->
        IF f = "Interval" THEN row.IntervalInt ELSE row[f]]

\* time.Time.Before
Before(t, u) == t < u

\* the rows of: WHERE enabled = true AND is_monitoring = false
RowsToRun(s) == {id \in DOMAIN s : s[id].Enabled /\ ~s[id].IsMonitoring}

\* the filter of GetMonitorsToRun on one row read at nowTime
IsDue(row, nowTime) == Before(row.LastMonitorTime + row.Interval, nowTime)

\* ids of the monitors GetMonitorsToRun returns
MonitorsToRun(s, nowTime) ==
    {id \in RowsToRun(s) : IsDue(AfterFind(s[id]), nowTime)}

\* the sequences without repetition over the set S
RECURSIVE Orders(_)
Orders(S) ==
    IF S = {} THEN {<<>>}
    ELSE UNION {{<<x>> \o t : t \in Orders(S \ {x})} : x \in S}

\* GetMonitorsToRun: one entry per due row; the query has no ORDER BY
GetMonitorsToRun(s, nowTime) == Orders(MonitorsToRun(s, nowTime))

\* a Lock that also stamps last_monitor_time
LockRowStamped(row) == [row EXCEPT !.IsMonitoring = TRUE, !.LastMonitorTime = now]

\* UPDATE ... SET is_monitoring = true WHERE id = ?
LockRow(row) == [row EXCEPT !.IsMonitoring = TRUE]

Lock(s, id) ==
    IF id \in DOMAIN s
    THEN [store |-> [s EXCEPT ![id] = LockRow(s[id])], RowsAffected |-> 1]
    ELSE [store |-> s, RowsAffected |-> 0]

\* Lock and Unlock without the test of RowsAffected
RowsNotChecked(rows) == FALSE

\* if result.RowsAffected == 0 { return fmt.Errorf("... not found") }
NotFound(rows) == rows = 0

\* GormDb.Lock, e being result.Error of the statement: the store after the
\* call and the error returned
GormLock(s, id, e) ==
    IF e # Nil THEN [store |-> s, err |-> e]
    ELSE IF NotFound(Lock(s, id).RowsAffected)
         THEN [store |-> s, err |-> ErrNotFound]
    ELSE [store |-> Lock(s, id).store, err |-> Nil]

\* an Unlock that stamps the time and leaves the flag
UnlockRowKeepsFlag(row, nowTime) == [row EXCEPT !.LastMonitorTime = nowTime]

\* UPDATE ... SET is_monitoring = false, last_monitor_time = now() WHERE id = ?
UnlockRow(row, nowTime) ==
    [row EXCEPT !.IsMonitoring = FALSE, !.LastMonitorTime = nowTime]

\* an Unlock that matches only rows that are locked
UnlockWhereLocked(row) == row.IsMonitoring

\* the rows with the id that the statement of Unlock matches: Where("id = ?")
\* has no further condition
UnlockWhere(row) == TRUE

Unlock(s, id, nowTime) ==
    IF id \in DOMAIN s /\ UnlockWhere(s[id])
    THEN [store |-> [s EXCEPT ![id] = UnlockRow(s[id], nowTime)], RowsAffected |-> 1]
    ELSE [store |-> s, RowsAffected |-> 0]

\* GormDb.Unlock, e being result.Error of the statement
GormUnlock(s, id, nowTime, e) ==
    IF e # Nil THEN [store |-> s, err |-> e]
    ELSE IF NotFound(Unlock(s, id, nowTime).RowsAffected)
         THEN [store |-> Unlock(s, id, nowTime).store, err |-> ErrNotFound]
    ELSE [store |-> Unlock(s, id, nowTime).store, err |-> Nil]

\* the errors a statement run WithContext(ctx) can end with: database/sql
\* refuses a context that is already cancelled, and the driver can fail
DbErrors == IF cancelled THEN {ErrCanceled} ELSE {Nil, ErrDb}

\* ---- initial state: NewManager, before Run is called ----------------------
\* BaseMonitor.BeforeSave: IntervalInt = int64(Interval)
BeforeSave(enabled, interval) ==
    [Enabled |-> enabled, IsMonitoring |-> FALSE, LastMonitorTime |-> Oldest,
     IntervalInt |-> interval]

\* the stores the run starts from: every monitor enabled or not, with one
\* of the intervals, never run
Stores == [MonitorIds -> {BeforeSave(en, iv) : en \in BOOLEAN, iv \in Intervals}]

SchedInit ==
    /\ cancelled = FALSE
    /\ tickPending = FALSE
    /\ chClosed = FALSE
    /\ closeCount = 0
    /\ watcherPc = "notStarted"
    /\ runPc = "init"
    /\ runResult = Nil
    /\ batch = <<>>

WorkerInit ==
    /\ pc = [w \in Workers |-> "notStarted"]
    /\ wmon = [w \in Workers |-> NoMonitor]
    /\ wLocked = [w \in Workers |-> FALSE]
    /\ wErr = [w \in Workers |-> Nil]
    /\ unlockCalls = [w \in Workers |-> 0]
    /\ saveCalls = [w \in Workers |-> 0]
    /\ inProgress = [w \in Workers |-> 0]
    /\ probing = 0
    /\ wg = 0

ProbeIdle ==
    /\ hm = NoHm
    /\ env = NoEnv
    /\ monitorResult = NoResponse

\* no HttpMonitor is being saved or loaded
HooksIdle ==
    /\ configured = 0
    /\ ReqTimeout = 0
    /\ ReqTimeoutInt = 0
    /\ hookPc = "idle"

\* no GormDb operation has been called directly
NoCall == [op |-> "none"]

Init ==
    /\ store \in Stores
    /\ SchedInit
    /\ WorkerInit
    /\ ProbeIdle
    /\ HooksIdle
    /\ dbCall = NoCall

\* ---- environment ------------------------------------------------------------
\* the ticker delivers on ticker.C between NewTicker and the deferred Stop
TickerRunning == runPc \notin {"init", "returned", "panicked"}

\* an unrecovered panic ends the process and every goroutine with it
Alive == runPc # "panicked"

\* one ticker period passes for the row
Age(row) ==
    [row EXCEPT !.LastMonitorTime = IF @ > Oldest THEN @ - 1 ELSE Oldest]

AdvanceTime ==
    /\ Alive
    /\ store' = [id \in DOMAIN store |-> Age(store[id])]
    /\ tickPending' = (tickPending \/ TickerRunning)
    /\ UNCHANGED <<cancelled, chClosed, closeCount,
                   watcherPc, runPc, runResult, batch, workerVars, probeVars, hookVars, dbCall>>

\* a cancellation that leaves the parked executors waiting on doWorkCh
StayParked(p) == p

\* an executor parked in its select is woken by ctx.Done(): it is runnable
\* again with ctx.Done() closed, and every case open to it then returns
WakeByDone(p) == IF p = "parked" THEN "select" ELSE p

\* signal.NotifyContext: SIGINT or SIGTERM closes ctx.Done()
Cancel ==
    /\ Alive
    /\ ~cancelled
    /\ cancelled' = TRUE
    /\ pc' = [w \in Workers |-> WakeByDone(pc[w])]
    /\ runPc' = IF runPc = "blockedSend" THEN "wokenDone" ELSE runPc
    /\ UNCHANGED <<store, tickPending, chClosed, closeCount,
                   watcherPc, runResult, batch, wmon, wLocked, wErr,
                   unlockCalls, saveCalls, inProgress, probing, wg, probeVars, hookVars, dbCall>>

\* ---- Manager.Run (manager.go) ----------------------------------------------
\* Run: startWorkerPool, NewTicker, go func() { <-ctx.Done(); close(doWorkCh) }
RunStart ==
    /\ Alive
    /\ runPc = "init"
    /\ runPc' = "select"
    /\ watcherPc' = "waiting"
    /\ pc' = [w \in Workers |-> "select"]
    /\ wg' = wg + maxWorkers
    /\ UNCHANGED <<store, cancelled, tickPending, chClosed,
                   closeCount, runResult, batch, wmon, wLocked, wErr,
                   unlockCalls, saveCalls, inProgress, probing, probeVars, hookVars, dbCall>>

\* the watcher goroutine: <-ctx.Done(); close(m.doWorkCh). No goroutine is
\* parked on doWorkCh at the close: Cancel has woken them all.
WatcherClose ==
    /\ Alive
    /\ watcherPc = "waiting"
    /\ cancelled
    /\ watcherPc' = "done"
    /\ chClosed' = TRUE
    /\ closeCount' = closeCount + 1
    /\ UNCHANGED <<store, cancelled, tickPending, runPc,
                   runResult, batch, workerVars, probeVars, hookVars, dbCall>>

\* outer select, case <-ctx.Done(): return ctx.Err()
RunCtxDone ==
    /\ Alive
    /\ runPc = "select"
    /\ cancelled
    /\ runPc' = "returned"
    /\ runResult' = ErrCanceled
    /\ UNCHANGED <<store, cancelled, tickPending, chClosed,
                   closeCount, watcherPc, batch, workerVars, probeVars, hookVars, dbCall>>

\* outer select, case <-ticker.C
RunTick ==
    /\ Alive
    /\ runPc = "select"
    /\ tickPending
    /\ tickPending' = FALSE
    /\ runPc' = "query"
    /\ UNCHANGED <<store, cancelled, chClosed, closeCount,
                   watcherPc, runResult, batch, workerVars, probeVars, hookVars, dbCall>>

\* a Run that returns the error of GetMonitorsToRun
QueryErrorFatal == "returned"

\* where Run goes when GetMonitorsToRun failed: into the if that logs the
\* error and continues
AfterQueryError == "queryFailed"

\* availableMonitors, err := m.db.GetMonitorsToRun(ctx)
RunGetMonitors ==
    /\ Alive
    /\ runPc = "query"
    /\ \E e \in DbErrors :
          IF e # Nil
          THEN /\ runPc' = AfterQueryError
               /\ runResult' = IF AfterQueryError = "returned" THEN e ELSE runResult
               /\ batch' = <<>>
          ELSE /\ runPc' = "dispatch"
               /\ batch' \in GetMonitorsToRun(store, now)
               /\ UNCHANGED runResult
    /\ UNCHANGED <<store, cancelled, tickPending, chClosed,
                   closeCount, watcherPc, workerVars, probeVars, hookVars, dbCall>>

\* if err != nil { log; continue }: back to the outer select
RunContinue ==
    /\ Alive
    /\ runPc = "queryFailed"
    /\ runPc' = "select"
    /\ UNCHANGED <<store, cancelled, tickPending, chClosed,
                   closeCount, watcherPc, runResult, batch, workerVars, probeVars, hookVars, dbCall>>

\* the range over availableMonitors is exhausted: back to the outer select
RunLoopEnd ==
    /\ Alive
    /\ runPc = "dispatch"
    /\ batch = <<>>
    /\ runPc' = "select"
    /\ UNCHANGED <<store, cancelled, tickPending, chClosed,
                   closeCount, watcherPc, runResult, batch, workerVars, probeVars, hookVars, dbCall>>

\* a pool whose executors would also receive while their probe is running
CanReceiveWhileProbing(w) == pc[w] \in {"parked", "probe"}

\* an executor that can take the monitor Run sends: it is parked in its
\* select, that is, work for its previous monitor has returned
CanReceive(w) == pc[w] = "parked"

\* executor w receives monitor id and calls work
StartWork(w, id) ==
    /\ pc' = [pc EXCEPT ![w] = "lock"]
    /\ wmon' = [wmon EXCEPT ![w] = id]
    /\ inProgress' = [inProgress EXCEPT ![w] = @ + 1]
    /\ wLocked' = [wLocked EXCEPT ![w] = FALSE]
    /\ wErr' = [wErr EXCEPT ![w] = Nil]
    /\ unlockCalls' = [unlockCalls EXCEPT ![w] = 0]
    /\ saveCalls' = [saveCalls EXCEPT ![w] = 0]

\* inner select, case m.doWorkCh <- availableMonitor, a receiver is waiting
RunHandoff(w) ==
    /\ Alive
    /\ runPc = "dispatch"
    /\ batch # <<>>
    /\ ~chClosed
    /\ CanReceive(w)
    /\ StartWork(w, Head(batch))
    /\ batch' = Tail(batch)
    /\ UNCHANGED <<store, cancelled, tickPending, chClosed,
                   closeCount, watcherPc, runPc, runResult, probing, wg, probeVars, hookVars, dbCall>>

\* inner select, case <-ctx.Done(): return ctx.Err()
RunSendDone ==
    /\ Alive
    /\ runPc = "dispatch"
    /\ batch # <<>>
    /\ cancelled
    /\ runPc' = "returned"
    /\ runResult' = ErrCanceled
    /\ UNCHANGED <<store, cancelled, tickPending, chClosed,
                   closeCount, watcherPc, batch, workerVars, probeVars, hookVars, dbCall>>

\* inner select, the send case is taken on the closed channel: the runtime
\* panics "send on closed channel", which ends the process
RunSendOnClosed ==
    /\ Alive
    /\ runPc = "dispatch"
    /\ batch # <<>>
    /\ chClosed
    /\ runPc' = "panicked"
    /\ UNCHANGED <<store, cancelled, tickPending, chClosed, closeCount,
                   watcherPc, runResult, batch, workerVars, probeVars, hookVars, dbCall>>

\* a select with a default case, which gives the batch up
NoReceiverSkips == "select"

\* where Run goes when no case of the inner select is ready: the select has
\* no default case and the channel no buffer, so Run parks in the send
NoReceiverReady == "blockedSend"

\* inner select, no case is ready: Run parks
RunBlock ==
    /\ Alive
    /\ runPc = "dispatch"
    /\ batch # <<>>
    /\ ~cancelled
    /\ ~chClosed
    /\ \A w \in Workers : ~CanReceive(w)
    /\ runPc' = NoReceiverReady
    /\ UNCHANGED <<store, cancelled, tickPending, chClosed,
                   closeCount, watcherPc, runResult, batch, workerVars, probeVars, hookVars, dbCall>>

\* Run, parked in the inner select, was woken by ctx.Done(): return ctx.Err()
RunWoken ==
    /\ Alive
    /\ runPc = "wokenDone"
    /\ runPc' = "returned"
    /\ runResult' = ErrCanceled
    /\ UNCHANGED <<store, cancelled, tickPending, chClosed,
                   closeCount, watcherPc, batch, workerVars, probeVars, hookVars, dbCall>>

\* ---- Manager.startWorkerPool: the executor goroutines ------------------------
\* return from the goroutine; the deferred m.wg.Done() runs
Exit(w) ==
    /\ pc' = [pc EXCEPT ![w] = "exited"]
    /\ wg' = wg - 1

\* select, case <-ctx.Done(): return
WorkerCtxDone(w) ==
    /\ Alive
    /\ pc[w] = "select"
    /\ cancelled
    /\ Exit(w)
    /\ UNCHANGED <<schedVars, wmon, wLocked, wErr,
                   unlockCalls, saveCalls, inProgress, probing, probeVars, hookVars, dbCall>>

\* select, case mon, ok := <-m.doWorkCh with ok = false: return
WorkerChClosed(w) ==
    /\ Alive
    /\ pc[w] = "select"
    /\ chClosed
    /\ Exit(w)
    /\ UNCHANGED <<schedVars, wmon, wLocked, wErr,
                   unlockCalls, saveCalls, inProgress, probing, probeVars, hookVars, dbCall>>

\* select, case mon, ok := <-m.doWorkCh, Run is parked in its send
WorkerReceive(w) ==
    /\ Alive
    /\ pc[w] = "select"
    /\ runPc = "blockedSend"
    /\ StartWork(w, Head(batch))
    /\ batch' = Tail(batch)
    /\ runPc' = "dispatch"
    /\ UNCHANGED <<store, cancelled, tickPending, chClosed,
                   closeCount, watcherPc, runResult, probing, wg, probeVars, hookVars, dbCall>>

\* select, no case is ready: the executor parks
WorkerPark(w) ==
    /\ Alive
    /\ pc[w] = "select"
    /\ ~cancelled
    /\ ~chClosed
    /\ runPc # "blockedSend"
    /\ pc' = [pc EXCEPT ![w] = "parked"]
    /\ UNCHANGED <<schedVars, wmon, wLocked, wErr,
                   unlockCalls, saveCalls, inProgress, probing, wg, probeVars, hookVars, dbCall>>

\* ---- Manager.work -------------------------------------------------------------
\* the executor is done with its monitor and selects again
NextIteration(w) ==
    /\ pc' = [pc EXCEPT ![w] = "select"]
    /\ wmon' = [wmon EXCEPT ![w] = NoMonitor]
    /\ wLocked' = [wLocked EXCEPT ![w] = FALSE]
    /\ wErr' = [wErr EXCEPT ![w] = Nil]
    /\ unlockCalls' = [unlockCalls EXCEPT ![w] = 0]
    /\ saveCalls' = [saveCalls EXCEPT ![w] = 0]

\* err := m.work(ctx, mon) returns err to the loop of the pool: nil goes on
\* to the next select, an error into the if that logs it. The work unit is
\* over; wLocked still tells whether it had claimed its monitor.
Return(w, err) ==
    /\ inProgress' = [inProgress EXCEPT ![w] = @ - 1]
    /\ IF err = Nil
       THEN NextIteration(w)
       ELSE /\ pc' = [pc EXCEPT ![w] = "logErr"]
            /\ wErr' = [wErr EXCEPT ![w] = err]
            /\ wmon' = [wmon EXCEPT ![w] = NoMonitor]
            /\ unlockCalls' = [unlockCalls EXCEPT ![w] = 0]
            /\ saveCalls' = [saveCalls EXCEPT ![w] = 0]
            /\ UNCHANGED wLocked

\* if err != nil { log }: the executor goes on to the next select
WorkerLogErr(w) ==
    /\ Alive
    /\ pc[w] = "logErr"
    /\ NextIteration(w)
    /\ UNCHANGED <<schedVars, inProgress, probing, wg, probeVars, hookVars, dbCall>>

\* a work that logs the error of Lock and goes on to the probe
LockErrorIgnored == "probe"

\* where work goes when Lock returned an error: if err != nil { return err }
AfterLockError == "return"

\* err := m.db.Lock(ctx, mon); if err != nil { return err }
WorkLock(w) ==
    /\ Alive
    /\ pc[w] = "lock"
    /\ \E e \in DbErrors :
          LET r == GormLock(store, wmon[w], e) IN
          /\ store' = r.store
          /\ IF r.err # Nil /\ AfterLockError = "return"
             THEN /\ Return(w, r.err)
                  /\ UNCHANGED probing
             ELSE /\ wLocked' = [wLocked EXCEPT ![w] = (r.err = Nil)]
                  /\ pc' = [pc EXCEPT ![w] = "probe"]
                  /\ probing' = probing + 1
                  /\ UNCHANGED <<wmon, wErr, unlockCalls, saveCalls, inProgress>>
    /\ UNCHANGED <<cancelled, tickPending, chClosed, closeCount, watcherPc,
                   runPc, runResult, batch, wg, probeVars, hookVars, dbCall>>

\* result := mon.Monitor(ctx): the probe ends. work hands the result to
\* SaveResult and does not look at it.
WorkProbe(w) ==
    /\ Alive
    /\ pc[w] = "probe"
    /\ ProbeOutcomes # {}
    /\ pc' = [pc EXCEPT ![w] = "save"]
    /\ probing' = probing - 1
    /\ UNCHANGED <<schedVars, wmon, wLocked, wErr, unlockCalls, saveCalls,
                   inProgress, wg, probeVars, hookVars, dbCall>>

\* work with the Unlock after the last statement instead of deferred: the
\* early return on a SaveResult error would skip it
AfterSaveNoDefer(e) == IF e = Nil THEN "unlock" ELSE "return"

\* where work goes after SaveResult returned e: both return statements run
\* the deferred function that calls Unlock
AfterSave(e) == "unlock"

\* err = m.db.SaveResult(ctx, result); return err / return nil. With the
\* return the deferred function starts and calls Unlock.
WorkSave(w) ==
    /\ Alive
    /\ pc[w] = "save"
    /\ \E e \in DbErrors :
          IF AfterSave(e) = "unlock"
          THEN /\ wErr' = [wErr EXCEPT ![w] = e]
               /\ pc' = [pc EXCEPT ![w] = "unlock"]
               /\ unlockCalls' = [unlockCalls EXCEPT ![w] = @ + 1]
               /\ saveCalls' = [saveCalls EXCEPT ![w] = @ + 1]
               /\ UNCHANGED <<wmon, wLocked, inProgress>>
          ELSE Return(w, e)
    /\ UNCHANGED <<schedVars, probing, wg, probeVars, hookVars, dbCall>>

\* the deferred m.db.Unlock(ctx, mon) completes; its error is logged and
\* dropped, and work returns the error of SaveResult
WorkUnlock(w) ==
    /\ Alive
    /\ pc[w] = "unlock"
    /\ \E e \in DbErrors : store' = GormUnlock(store, wmon[w], now, e).store
    /\ Return(w, wErr[w])
    /\ UNCHANGED <<cancelled, tickPending, chClosed, closeCount, watcherPc,
                   runPc, runResult, batch, probing, wg, probeVars, hookVars, dbCall>>

\* ---- specifications -----------------------------------------------------------
Next ==
    \/ AdvanceTime
    \/ Cancel
    \/ RunStart
    \/ WatcherClose
    \/ RunCtxDone
    \/ RunTick
    \/ RunGetMonitors
    \/ RunContinue
    \/ RunLoopEnd
    \/ RunSendDone
    \/ RunSendOnClosed
    \/ RunBlock
    \/ RunWoken
    \/ \E w \in Workers : RunHandoff(w)
    \/ \E w \in Workers : WorkerCtxDone(w)
    \/ \E w \in Workers : WorkerChClosed(w)
    \/ \E w \in Workers : WorkerReceive(w)
    \/ \E w \in Workers : WorkerPark(w)
    \/ \E w \in Workers : WorkerLogErr(w)
    \/ \E w \in Workers : WorkLock(w)
    \/ \E w \in Workers : WorkProbe(w)
    \/ \E w \in Workers : WorkSave(w)
    \/ \E w \in Workers : WorkUnlock(w)

Spec == Init /\ [][Next]_vars

\* the probe alone: one HttpMonitor, one behaviour of the endpoint, one call
InitMonitor ==
    /\ store = [id \in MonitorIds |-> BeforeSave(TRUE, 1)]
    /\ SchedInit
    /\ WorkerInit
    /\ hm \in HttpMonitors
    /\ env \in Envs
    /\ monitorResult = NoResponse
    /\ HooksIdle
    /\ dbCall = NoCall

CallMonitor ==
    /\ monitorResult = NoResponse
    /\ monitorResult' = Monitor(hm, env)
    /\ UNCHANGED <<schedVars, workerVars, hm, env, hookVars, dbCall>>

NextMonitor == CallMonitor

SpecMonitor == InitMonitor /\ [][NextMonitor]_vars

\* the service while the context is live and the store answers every
\* statement: no Cancel, and of every store operation the run without error
LiveGetMonitors == RunGetMonitors /\ runPc' = "dispatch"

LiveLock(w) == WorkLock(w) /\ store' = GormLock(store, wmon[w], Nil).store /\ wLocked'[w]

LiveSave(w) == WorkSave(w) /\ wErr'[w] = Nil

LiveUnlock(w) == WorkUnlock(w) /\ store' = GormUnlock(store, wmon[w], now, Nil).store

NextLive ==
    \/ AdvanceTime
    \/ RunStart
    \/ RunTick
    \/ LiveGetMonitors
    \/ RunLoopEnd
    \/ RunBlock
    \/ \E w \in Workers : RunHandoff(w)
    \/ \E w \in Workers : WorkerReceive(w)
    \/ \E w \in Workers : WorkerPark(w)
    \/ \E w \in Workers : LiveLock(w)
    \/ \E w \in Workers : WorkProbe(w)
    \/ \E w \in Workers : LiveSave(w)
    \/ \E w \in Workers : LiveUnlock(w)

\* the ticker keeps firing, the Go scheduler runs every goroutine that can
\* run, and every probe ends
Fairness ==
    /\ WF_vars(AdvanceTime)
    /\ WF_vars(RunStart)
    /\ WF_vars(RunTick)
    /\ WF_vars(LiveGetMonitors)
    /\ WF_vars(RunLoopEnd)
    /\ WF_vars(RunBlock)
    /\ WF_vars(\E w \in Workers : RunHandoff(w))
    /\ \A w \in Workers :
          /\ WF_vars(WorkerReceive(w))
          /\ WF_vars(WorkerPark(w))
          /\ WF_vars(LiveLock(w))
          /\ WF_vars(WorkProbe(w))
          /\ WF_vars(LiveSave(w))
          /\ WF_vars(LiveUnlock(w))

SpecLive == Init /\ [][NextLive]_vars /\ Fairness

\* the store operations alone, called as the tests of GormDb call them, on
\* a live context: any rows for any of the ids, any id as argument
Rows ==
    [Enabled : BOOLEAN, IsMonitoring : BOOLEAN, LastMonitorTime : Times,
     IntervalInt : Intervals]

DbStores == UNION {[S -> Rows] : S \in SUBSET MonitorIds}

InitDb ==
    /\ store \in DbStores
    /\ SchedInit
    /\ WorkerInit
    /\ ProbeIdle
    /\ HooksIdle
    /\ dbCall = NoCall

\* the call made, the error it returned and the row of the id before it
Called(op, id, err) ==
    [op |-> op, id |-> id, err |-> err,
     before |-> IF id \in DOMAIN store THEN {store[id]} ELSE {}]

\* err := db.Lock(context.Background(), mon)
DbLock(id) ==
    /\ \E e \in DbErrors :
          /\ store' = GormLock(store, id, e).store
          /\ dbCall' = Called("Lock", id, GormLock(store, id, e).err)
    /\ UNCHANGED <<cancelled, tickPending, chClosed, closeCount, watcherPc,
                   runPc, runResult, batch, workerVars, probeVars, hookVars>>

\* err := db.Unlock(context.Background(), mon)
DbUnlock(id) ==
    /\ \E e \in DbErrors :
          /\ store' = GormUnlock(store, id, now, e).store
          /\ dbCall' = Called("Unlock", id, GormUnlock(store, id, now, e).err)
    /\ UNCHANGED <<cancelled, tickPending, chClosed, closeCount, watcherPc,
                   runPc, runResult, batch, workerVars, probeVars, hookVars>>

NextDb ==
    \/ AdvanceTime
    \/ \E id \in MonitorIds : DbLock(id)
    \/ \E id \in MonitorIds : DbUnlock(id)

SpecDb == InitDb /\ [][NextDb]_vars

\* the hooks alone: an HttpMonitor with any ReqTimeout is saved, and a row
\* with any req_timeout, or the row just saved, is loaded
InitHooks ==
    /\ store = [id \in MonitorIds |-> BeforeSave(TRUE, 1)]
    /\ SchedInit
    /\ WorkerInit
    /\ ProbeIdle
    /\ dbCall = NoCall
    /\ configured \in TimeoutValues
    /\ ReqTimeout = configured
    /\ ReqTimeoutInt \in TimeoutValues
    /\ hookPc = "new"

\* HttpMonitor.BeforeSave: clamp ReqTimeout, ReqTimeoutInt = int64(ReqTimeout)
HttpMonitorBeforeSave ==
    /\ hookPc = "new"
    /\ ReqTimeout' = ClampBeforeSave(ReqTimeout)
    /\ ReqTimeoutInt' = ClampBeforeSave(ReqTimeout)
    /\ hookPc' = "saved"
    /\ UNCHANGED <<schedVars, workerVars, probeVars, configured, dbCall>>

\* HttpMonitor.AfterFind: ReqTimeout = time.Duration(ReqTimeoutInt), clamped
HttpMonitorAfterFind ==
    /\ hookPc \in {"new", "saved"}
    /\ ReqTimeout' = ClampAfterFind(ReqTimeoutInt)
    /\ hookPc' = IF hookPc = "saved" THEN "foundSaved" ELSE "found"
    /\ UNCHANGED <<schedVars, workerVars, probeVars, configured, ReqTimeoutInt,
                   dbCall>>

NextHooks == HttpMonitorBeforeSave \/ HttpMonitorAfterFind

SpecHooks == InitHooks /\ [][NextHooks]_vars

\* ---- properties -----------------------------------------------------------------
InWork(w) == pc[w] \in {"lock", "probe", "save", "unlock"}

\* the step in which work of executor w returns to the loop of the pool
WorkReturns(w) == InWork(w) /\ pc'[w] \in {"select", "logErr"}

RECURSIVE Elems(_)
Elems(seq) == IF seq = <<>> THEN {} ELSE {Head(seq)} \cup Elems(Tail(seq))

\* C1: a monitor is never probed by two overlapping executions: no two
\* executors are between a successful Lock and the return of work for the
\* same monitor id.
MutualExclusion ==
    \A w1 \in Workers : \A w2 \in Workers :
        (w1 # w2 /\ wLocked[w1] /\ wLocked[w2]) => wmon[w1] # wmon[w2]

\* C2: a Lock issued while the monitor's is_monitoring flag is already true
\* fails and leaves the store unchanged: work returns without a probe.
LockRefusesLockedMonitor ==
    [][\A w \in Workers :
          (pc[w] = "lock" /\ pc'[w] # "lock" /\ store[wmon[w]].IsMonitoring)
              => (pc'[w] = "logErr" /\ store' = store)]_vars

\* C3: the number of Monitor calls in flight never exceeds the pool size,
\* and no executor has more than one call of work in progress.
PoolBound ==
    /\ probing <= maxWorkers
    /\ \A w \in Workers : inProgress[w] <= 1

\* C3, the case: every executor of the pool is probing, two of them
\* different monitors
PoolFull ==
    /\ probing = maxWorkers
    /\ \E w1 \in Workers : \E w2 \in Workers :
          pc[w1] = "probe" /\ pc[w2] = "probe" /\ wmon[w1] # wmon[w2]

\* the monitors the specification calls due: enabled, not in flight, and
\* lastRunAt + interval <= now
DueBySpec(s) ==
    {id \in DOMAIN s :
        /\ s[id].Enabled
        /\ ~s[id].IsMonitoring
        /\ s[id].LastMonitorTime + s[id].IntervalInt <= now}

\* C4: a successful GetMonitorsToRun returns exactly the monitors that are
\* enabled, not in flight and have lastRunAt + interval <= now, one entry each.
ListDueReturnsDue ==
    [][(runPc = "query" /\ runPc' = "dispatch")
          => (Elems(batch') = DueBySpec(store)
              /\ Len(batch') = Cardinality(DueBySpec(store)))]_vars

\* C5: when work returns after a successful Lock, Unlock has been invoked
\* exactly once in that work unit, whatever SaveResult returned.
UnlockOnEveryPath ==
    [][\A w \in Workers :
          (WorkReturns(w) /\ wLocked[w]) => unlockCalls[w] = 1]_vars

\* C5, the case: SaveResult has failed on a work unit that holds the lock,
\* and the deferred Unlock has been invoked
UnlockAfterFailedSave ==
    \E w \in Workers :
        pc[w] = "unlock" /\ wLocked[w] /\ wErr[w] = ErrDb /\ unlockCalls[w] = 1

\* C6: when a work unit that claimed a monitor ends, the monitor's
\* is_monitoring flag is false, also when the run context has been cancelled.
ReleasedAtEndOfWork ==
    [][\A w \in Workers :
          (WorkReturns(w) /\ wLocked[w] /\ cancelled)
              => ~store'[wmon[w]].IsMonitoring]_vars

\* C7: Run never evaluates the select that holds the send on doWorkCh with
\* doWorkCh closed; the channel is closed once, and only after cancellation.
NoSendOnClosedChannel ==
    /\ ~(runPc = "dispatch" /\ batch # <<>> /\ chClosed)
    /\ runPc # "panicked"
    /\ closeCount <= 1
    /\ chClosed => cancelled

\* C8: Run ends only by returning the context's error after the context was
\* cancelled.
RunEndsWithCtxErr ==
    runPc \in {"returned", "panicked"}
        => (runPc = "returned" /\ runResult = ErrCanceled /\ cancelled)

\* C9: when Run has returned, every executor has exited and no work unit is
\* in progress.
PoolDrainedWhenRunReturns ==
    runPc = "returned"
        => (wg = 0 /\ \A w \in Workers : pc[w] = "exited" /\ inProgress[w] = 0)

\* transport, status code and, when enabled, body checks all passed
ChecksPassed(m, e) ==
    /\ ~e.reqErr
    /\ e.transportErr = Nil
    /\ e.statusCode \in m.ValidStatusCodes
    /\ m.ShouldCheckResponse => (~e.readErr /\ e.body = m.ExpectedResponse)

\* C10: the outcome is Warn iff ShouldWarnOnSSLExpiry is set, the SSL
\* sub-check reported valid, the expiry is less than 30 days after now and
\* all other checks passed; otherwise, with all checks passed, it is Up.
WarnIffExpiringValidCert ==
    monitorResult # NoResponse =>
        LET warn == /\ hm.ShouldWarnOnSSLExpiry
                    /\ monitorResult.SslResp.Valid
                    /\ monitorResult.SslResp.Expiry - now < ThirtyDays
                    /\ ChecksPassed(hm, env)
        IN  /\ (monitorResult.Result = ResultWarn) <=> warn
            /\ (ChecksPassed(hm, env) /\ ~warn) => monitorResult.Result = ResultUp

\* t lies in [1s, 5m]
InTimeoutRange(t) == minHttpClientTimeout <= t /\ t <= maxHttpClientTimeout

\* C11: BeforeSave stores a timeout in [1s, 300s]: 30s for an unset (0)
\* ReqTimeout, 5m for one above 5m, 1s for one below 1s, the value itself in
\* range; AfterFind yields a ReqTimeout in [1s, 5m], the stored value when
\* BeforeSave wrote it.
TimeoutClamped ==
    [][/\ (hookPc = "new" /\ hookPc' = "saved") =>
            /\ InTimeoutRange(ReqTimeoutInt')
            /\ ReqTimeout = 0 => ReqTimeoutInt' = 30000
            /\ ReqTimeout > 300000 => ReqTimeoutInt' = 300000
            /\ (ReqTimeout # 0 /\ ReqTimeout < 1000) => ReqTimeoutInt' = 1000
            /\ InTimeoutRange(ReqTimeout) => ReqTimeoutInt' = ReqTimeout
       /\ hookPc' \in {"found", "foundSaved"} =>
            /\ InTimeoutRange(ReqTimeout')
            /\ hookPc' = "foundSaved" => ReqTimeout' = ReqTimeoutInt
      ]_vars

\* C11, the case: a negative ReqTimeout was saved as 1s and loaded as 1s
NegativeTimeoutSavedAndFound ==
    /\ hookPc = "foundSaved"
    /\ configured < 0
    /\ ReqTimeoutInt = minHttpClientTimeout
    /\ ReqTimeout = minHttpClientTimeout

\* C12: a failing GetMonitorsToRun is not fatal: Run dispatches nothing for
\* that tick, does not return, changes no monitor and no executor, and goes
\* back to the select on the ticker, which is still running.
QueryErrorSkipsTick ==
    [][/\ (runPc = "query" /\ runPc' \notin {"query", "dispatch"}) =>
            /\ runPc' = "queryFailed"
            /\ batch' = <<>>
            /\ runResult' = runResult
            /\ store' = store
            /\ workerVars' = workerVars
       /\ (runPc = "queryFailed" /\ runPc' # "queryFailed") =>
            /\ runPc' = "select"
            /\ batch' = <<>>
            /\ TickerRunning'
      ]_vars

\* C12, the case: the query failed on a store that is reachable again (the
\* context is live) while a monitor is due, and Run is about to continue
QueryFailedWithDueMonitor ==
    /\ runPc = "queryFailed"
    /\ ~cancelled
    /\ MonitorsToRun(store, now) # {}

\* C13: when Lock fails, work returns the error with no probe, no SaveResult
\* and no Unlock, the store is left as it was, and the executor stays in
\* its loop and selects again.
LockFailureAbandonsCycle ==
    [][\A w \in Workers :
          /\ (pc[w] = "lock" /\ pc'[w] # "lock" /\ ~wLocked'[w]) =>
                /\ pc'[w] = "logErr"
                /\ wErr'[w] # Nil
                /\ store' = store
                /\ probing' = probing
                /\ saveCalls[w] = 0 /\ saveCalls'[w] = 0
                /\ unlockCalls[w] = 0 /\ unlockCalls'[w] = 0
          /\ (pc[w] = "logErr" /\ pc'[w] # "logErr") => pc'[w] = "select"
      ]_vars

\* C13, the case: Lock has failed on a live context for a monitor that is
\* not claimed, and the executor is in the if that logs the error
LockFailedOnLiveContext ==
    \E w \in Workers :
        /\ pc[w] = "logErr"
        /\ ~wLocked[w]
        /\ wErr[w] = ErrDb
        /\ ~cancelled

\* C14: when SaveResult fails, it was called once for that probe, the
\* monitor is released by the Unlock that follows (is_monitoring = false,
\* lastRunAt = now) unless the store itself fails that statement on a live
\* context, and the executor stays in its loop.
SaveFailureStillReleases ==
    [][\A w \in Workers :
          (pc[w] = "unlock" /\ pc'[w] # "unlock" /\ wLocked[w] /\ wErr[w] # Nil) =>
                /\ saveCalls[w] = 1
                /\ pc'[w] = "logErr"
                /\ \/ /\ ~store'[wmon[w]].IsMonitoring
                      /\ store'[wmon[w]].LastMonitorTime = now
                   \/ (~cancelled /\ store' = store)
      ]_vars

\* Monitor has returned for a request that got a response
GotResponse == monitorResult # NoResponse /\ ~env.reqErr /\ env.transportErr = Nil

\* C15: a response whose status code is not in ValidStatusCodes gives Down
\* with StatusCodeValid = false and DataValid = false, and the body is neither
\* read nor compared (no read error, no mismatch message), whatever
\* ShouldCheckResponse and the SSL flags are.
InvalidStatusIsDown ==
    (GotResponse /\ env.statusCode \notin hm.ValidStatusCodes) =>
        /\ monitorResult.Result = ResultDown
        /\ ~monitorResult.StatusCodeValid
        /\ ~monitorResult.DataValid
        /\ monitorResult.ErrorMsg = ""

\* C15, the case: no status code is accepted, the body check is enabled, the
\* endpoint answers 200 with a body that is not the expected one
EmptyCodesRejected200 ==
    /\ GotResponse
    /\ hm.ValidStatusCodes = {}
    /\ hm.ShouldCheckResponse
    /\ env.statusCode = 200
    /\ env.body # hm.ExpectedResponse
    /\ monitorResult.Result = ResultDown

\* the response has a valid status code and, where the body is checked, the
\* body was read in full
ValidStatusBodyRead ==
    /\ GotResponse
    /\ env.statusCode \in hm.ValidStatusCodes
    /\ hm.ShouldCheckResponse => ~env.readErr

\* C16: with ShouldCheckResponse and a valid status code the outcome is Down
\* with message "response is not as expected: <body>" exactly when the body
\* is not equal to ExpectedResponse; without ShouldCheckResponse the outcome
\* is Up or Warn and the same for every body.
BodyCheckedByEquality ==
    ValidStatusBodyRead =>
        /\ hm.ShouldCheckResponse =>
              /\ (env.body # hm.ExpectedResponse) <=>
                    /\ monitorResult.Result = ResultDown
                    /\ monitorResult.ErrorMsg
                          = "response is not as expected: " \o env.body
              /\ (env.body = hm.ExpectedResponse) =>
                    monitorResult.Result \in {ResultUp, ResultWarn}
        /\ ~hm.ShouldCheckResponse =>
              /\ monitorResult.Result \in {ResultUp, ResultWarn}
              /\ \A b \in Bodies :
                    Monitor(hm, [env EXCEPT !.body = b]) = monitorResult

\* C16, the case: the body check is enabled, the expected body is "ok" and
\* the endpoint answers "okay", which begins with it: Down
LongerBodyRejected ==
    /\ ValidStatusBodyRead
    /\ hm.ShouldCheckResponse
    /\ hm.ExpectedResponse = "ok"
    /\ env.body = "okay"
    /\ monitorResult.Result = ResultDown
    /\ monitorResult.ErrorMsg = "response is not as expected: okay"

\* C17: a transport error of the request gives Down with the error text as
\* ErrorMsg, and nothing after it runs: StatusCodeValid and DataValid false,
\* Latency unset, no Warn.
TransportErrorIsDown ==
    (monitorResult # NoResponse /\ ~env.reqErr /\ env.transportErr # Nil) =>
        /\ monitorResult.Result = ResultDown
        /\ monitorResult.ErrorMsg = env.transportErr
        /\ ~monitorResult.StatusCodeValid
        /\ ~monitorResult.DataValid
        /\ monitorResult.Latency = 0

\* C17, the case: the connection is refused for a monitor that would
\* otherwise warn (expiring certificate, accepted status code, time spent)
RefusedBeforeWarn ==
    /\ monitorResult # NoResponse
    /\ ~env.reqErr
    /\ env.transportErr = "connection refused"
    /\ hm.ShouldWarnOnSSLExpiry
    /\ env.dialOk /\ env.lifetime < ThirtyDays
    /\ env.statusCode \in hm.ValidStatusCodes
    /\ env.latency > 0
    /\ monitorResult.Result = ResultDown

\* every monitor but id is as it was
OthersUnchanged(id) ==
    /\ DOMAIN store' = DOMAIN store
    /\ \A other \in DOMAIN store : other # id => store'[other] = store[other]

\* C18: Lock and Unlock on an id that is not in the store return an error
\* and change no stored monitor.
MissingMonitorIsError ==
    [][\A id \in MonitorIds :
          ((DbLock(id) \/ DbUnlock(id)) /\ id \notin DOMAIN store) =>
              /\ dbCall'.err # Nil
              /\ store' = store
      ]_vars

\* C18, the case: Unlock was called for an id that is not in the store, which
\* holds another monitor, and returned the not-found error
UnlockOfMissingMonitor ==
    /\ dbCall.op = "Unlock"
    /\ dbCall.id \notin DOMAIN store
    /\ DOMAIN store # {}
    /\ dbCall.err = ErrNotFound

\* C19: on an existing monitor a Lock that succeeds sets is_monitoring and
\* nothing else; an Unlock that succeeds clears is_monitoring and sets
\* lastRunAt = now, whatever they were, and nothing else; neither reports
\* the monitor as missing, and every other monitor is as it was.
LockUnlockFrame ==
    [][\A id \in MonitorIds :
          /\ ((DbLock(id) \/ DbUnlock(id)) /\ id \in DOMAIN store) =>
                /\ dbCall'.err # ErrNotFound
                /\ OthersUnchanged(id)
                /\ store'[id].Enabled = store[id].Enabled
                /\ store'[id].IntervalInt = store[id].IntervalInt
          /\ (DbLock(id) /\ id \in DOMAIN store /\ dbCall'.err = Nil) =>
                /\ store'[id].IsMonitoring
                /\ store'[id].LastMonitorTime = store[id].LastMonitorTime
          /\ (DbUnlock(id) /\ id \in DOMAIN store /\ dbCall'.err = Nil) =>
                /\ ~store'[id].IsMonitoring
                /\ store'[id].LastMonitorTime = now
      ]_vars

\* C19, the case: Unlock succeeded on a locked monitor last run in the past,
\* in a store with another monitor
UnlockOfLockedMonitor ==
    /\ dbCall.op = "Unlock"
    /\ dbCall.err = Nil
    /\ Cardinality(DOMAIN store) = 2
    /\ \E r \in dbCall.before : r.IsMonitoring /\ r.LastMonitorTime < now
    /\ ~store[dbCall.id].IsMonitoring
    /\ store[dbCall.id].LastMonitorTime = now

\* C20: Unlock of an existing monitor that is already released returns no
\* error (the store itself failing the statement apart, which changes
\* nothing) and leaves the monitor released, in the state a single Unlock
\* gives.
UnlockIdempotent ==
    [][\A id \in MonitorIds :
          (DbUnlock(id) /\ id \in DOMAIN store /\ ~store[id].IsMonitoring) =>
              /\ dbCall'.err # Nil => (dbCall'.err = ErrDb /\ store' = store)
              /\ ~store'[id].IsMonitoring
              /\ dbCall'.err = Nil =>
                    store' = Unlock(Unlock(store, id, now).store, id, now).store
      ]_vars

\* C20, the case: Unlock succeeded on a monitor that an Unlock had released
\* at this very time
UnlockAfterUnlock ==
    /\ dbCall.op = "Unlock"
    /\ dbCall.err = Nil
    /\ \E r \in dbCall.before : ~r.IsMonitoring /\ r.LastMonitorTime = now
    /\ ~store[dbCall.id].IsMonitoring

\* executor w takes the monitor at the head of the batch in this step
Receives(w) ==
    /\ pc[w] \in {"select", "parked"}
    /\ pc'[w] = "lock"
    /\ wmon'[w] = Head(batch)

\* C21: a monitor leaves the batch only in the step in which an idle
\* executor receives it (nothing is buffered), and Run queries the store
\* again only when the whole batch has been received.
UnbufferedHandoff ==
    [][/\ (batch # <<>> /\ batch' # batch) =>
            /\ batch' = Tail(batch)
            /\ \E w \in Workers : Receives(w)
       /\ (runPc' = "query" /\ runPc # "query") => batch = <<>>
       /\ (runPc = "query" /\ runPc' # "query") => batch = <<>>
      ]_vars

\* C21, the case: of a batch of two monitors one has been received, every
\* executor is busy, and Run is parked in the send of the other
SecondMonitorWaits ==
    /\ runPc = "blockedSend"
    /\ Len(batch) = 1
    /\ \A w \in Workers : InWork(w)
    /\ \E w \in Workers : wmon[w] # Head(batch)

\* C22: once the context is cancelled no monitor leaves the batch and no
\* executor begins a work unit (none enters work, none calls Lock for a
\* monitor received after the cancellation); an executor that is back at
\* its select exits.
NoDispatchAfterCancel ==
    [][cancelled =>
          /\ batch' = batch
          /\ \A w \in Workers :
                /\ ~Receives(w)
                /\ (~InWork(w)) => ~InWork(w)'
                /\ wmon'[w] \in {wmon[w], NoMonitor}
                /\ (pc[w] = "select" /\ pc'[w] # "select") => pc'[w] = "exited"
      ]_vars

\* C22, the case: the context is cancelled with a monitor still in the
\* batch; one executor has exited and another finishes the work unit it had
WindingDown ==
    /\ cancelled
    /\ batch # <<>>
    /\ \E w \in Workers : pc[w] = "exited"
    /\ \E w \in Workers : pc[w] = "unlock"

\* the sub-check of the certificate ran and failed
SslCheckFailed ==
    /\ monitorResult # NoResponse
    /\ ~env.reqErr
    /\ hm.ShouldCheckSSL \/ hm.ShouldWarnOnSSLExpiry
    /\ ~env.dialOk

\* C23: a failed SSL sub-check does not abort the probe: the result has
\* SslResp.Valid = false and no expiry, the request and the validations of
\* status and body still run (their fields are filled), the outcome is Down
\* exactly when one of them fails, and a successful sub-check would have
\* changed nothing but SslResp and the decision between Up and Warn.
SslFailureDoesNotAbort ==
    SslCheckFailed =>
        /\ ~monitorResult.SslResp.Valid
        /\ monitorResult.SslResp.Expiry = ZeroTime
        /\ (monitorResult.Result = ResultDown) <=> ~ChecksPassed(hm, env)
        /\ env.transportErr = Nil =>
              /\ monitorResult.Latency = env.latency
              /\ monitorResult.StatusCodeValid
                    <=> (env.statusCode \in hm.ValidStatusCodes)
        /\ LET other == Monitor(hm, [env EXCEPT !.dialOk = TRUE])
           IN  /\ [other EXCEPT !.SslResp = monitorResult.SslResp,
                                !.Result = monitorResult.Result] = monitorResult
               /\ other.Result # monitorResult.Result =>
                     {other.Result, monitorResult.Result} = {ResultUp, ResultWarn}

\* C23, the case: the SSL check is asked for and fails, the endpoint answers
\* with an accepted status code and the expected body: the probe ends Up
UpDespiteSslFailure ==
    /\ SslCheckFailed
    /\ hm.ShouldCheckSSL /\ ~hm.ShouldWarnOnSSLExpiry
    /\ hm.ShouldCheckResponse
    /\ monitorResult.StatusCodeValid
    /\ monitorResult.Result = ResultUp

\* C26: every result of Monitor has an outcome Up, Down or Warn; Up or Warn
\* comes with an empty ErrorMsg and StatusCodeValid; a non-empty ErrorMsg
\* comes with Down; MonitorID is the id of the monitor probed.
ResultWellFormed ==
    monitorResult # NoResponse =>
        /\ monitorResult.Result \in {ResultUp, ResultDown, ResultWarn}
        /\ monitorResult.Result \in {ResultUp, ResultWarn} =>
              (monitorResult.ErrorMsg = "" /\ monitorResult.StatusCodeValid)
        /\ monitorResult.ErrorMsg # "" => monitorResult.Result = ResultDown
        /\ monitorResult.MonitorID = hm.ID

\* C26, the case: the request could not even be built, and the result is
\* Down with the error as message for the monitor probed
DownOnRequestError ==
    /\ monitorResult # NoResponse
    /\ env.reqErr
    /\ monitorResult.Result = ResultDown
    /\ monitorResult.ErrorMsg # ""
    /\ monitorResult.MonitorID = hm.ID

\* C24: a probe starts only with the monitor enabled and due in the store at
\* the moment of the successful claim (now >= lastRunAt + interval), so that
\* at least one interval lies between a release and the next probe.
ClaimOnlyWhenDue ==
    [][\A w \in Workers :
          (pc[w] = "lock" /\ pc'[w] = "probe" /\ wLocked'[w]) =>
              /\ store[wmon[w]].Enabled
              /\ now >= store[wmon[w]].LastMonitorTime + store[wmon[w]].IntervalInt
      ]_vars

\* monitor id is what GetMonitorsToRun returns now: enabled, not in flight
\* and past its interval
Due(id) == id \in MonitorsToRun(store, now)

\* an executor holds the claim of id and probes it
Probed(id) ==
    \E w \in Workers : wmon[w] = id /\ wLocked[w] /\ pc[w] = "probe"

\* the result of a probe of id has been saved and the release is pending
Saved(id) ==
    \E w \in Workers :
        wmon[w] = id /\ wLocked[w] /\ pc[w] = "unlock" /\ saveCalls[w] = 1

\* id has just been released: is_monitoring = false and lastRunAt = now
Released(id) ==
    ~store[id].IsMonitoring /\ store[id].LastMonitorTime = now

\* C25: with the context live and the store answering, under fair
\* scheduling and with every probe ending, every enabled monitor that is due
\* is eventually claimed and probed, has its result saved and is released,
\* and after its release it is due again.
DueMonitorProgress ==
    \A id \in MonitorIds :
        /\ Due(id) ~> Probed(id)
        /\ Probed(id) ~> Saved(id)
        /\ Saved(id) ~> Released(id)
        /\ (store[id].Enabled /\ Released(id)) ~> Due(id)

\* C25, the case: an enabled monitor has been probed and released at this
\* time, while the other one, released before, is due again
ReleasedAndDueAgain ==
    \E id \in MonitorIds : \E other \in MonitorIds :
        /\ store[id].Enabled /\ Released(id)
        /\ other # id
        /\ Due(other)
        /\ runPc = "select"

====
